---------------------------- MODULE Spec2Model ----------------------------
(***************************************************************************)
(* A model of src/src/App.tsx (gascontrole): the daily sales ledger of a   *)
(* gas-refill stand, its pricing settings, the new-sale flow, the confirm  *)
(* dialog and the two localStorage slots.                                  *)
(*                                                                         *)
(* Modelling decisions                                                     *)
(*  - Prices are integers (a price in centavos); JS numbers are finite     *)
(*    here because <input type=number> only yields finite values.          *)
(*  - A calendar date is a day number; the clock counts units of           *)
(*    1/UnitsPerDay of a day in UTC, tz is the device's offset in units.   *)
(*  - A JS object keyed by date is a sequence of [date, sales] entries in  *)
(*    insertion order, as a JS object with string keys keeps them.         *)
(*  - A state update re-renders App, which recomputes `today`; handlers    *)
(*    read the values (today, newSaleData, settings) of the last render.   *)
(*  - A React state change made by a click is rendered, and its save       *)
(*    effect run, before the next event; only resetAll, which navigates    *)
(*    away in the same handler, races its effects against the reload.      *)
(*  - A modal overlay covers the page, so only the controls of the         *)
(*    topmost open modal (dialog above summary above the page) are used.   *)
(*  - journal, entered and clearedDays are history variables: they record *)
(*    what the user did and are never read by the program.                 *)
(***************************************************************************)
EXTENDS Integers, Sequences, FiniteSets, TLC

VARIABLES
    settings,           \* useState<Settings>, line 49
    allSales,           \* useState<DayData>, line 54
    storage,            \* localStorage: the two slots
    showSettings,       \* line 59
    showSaleModal,      \* line 60
    showSummaryModal,   \* line 61
    dialog,             \* line 64
    step,               \* line 78
    newSaleData,        \* line 79
    localId,            \* SaleContent's local state, line 290
    today,              \* line 86, as computed by the last render
    clock,              \* the wall clock (UTC), in units
    tz,                 \* the device's time-zone offset, in units
    nextId,             \* the next fresh id of crypto.randomUUID()
    phase,              \* "running", or "reloading" after resetAll navigates
    effectsPending,     \* resetAll's save effects have not run yet
    journal,            \* history: the recordings not cleared since, in order
    entered,            \* history: the label the user typed in this flow
    clearedDays         \* history: the dates a confirmed clear was run for

vars == <<settings, allSales, storage, showSettings, showSaleModal,
          showSummaryModal, dialog, step, newSaleData, localId, today, clock,
          tz, nextId, phase, effectsPending, journal, entered, clearedDays>>

uiVars == <<showSettings, showSaleModal, showSummaryModal, dialog, step,
            newSaleData, localId>>

histVars == <<journal, entered, clearedDays>>

-----------------------------------------------------------------------------
(* Bounds of the model *)

\* The clock's resolution: units per day.
UnitsPerDay == 2

\* The clock stops advancing here.
MaxClock == 4

\* The number of sales recorded in one behaviour.
MaxSales == 2

\* The (buy, sell) prices the user may type into the settings form.
PricePairs == {<<0, 3>>, <<-1, 3>>, <<2, 0>>, <<2, -1>>, <<2, 3>>, <<3, 5>>}

\* The labels the user may type into the identification field.
Labels == {"", "ana"}

\* The time-zone offsets of the device, in units.
TzOffsets == {-1, 0, 1}

-----------------------------------------------------------------------------
(* Dates and times *)

\* new Date().toISOString().split('T')[0]: the calendar date in UTC.
IsoDate(t) == t \div UnitsPerDay

\* now.toLocaleTimeString('pt-BR', ...): the local time of day.
LocaleTime(t) == (t + tz) % UnitsPerDay

-----------------------------------------------------------------------------
(* JS objects keyed by date *)

HasKey(obj, d) == \E i \in 1..Len(obj) : obj[i].date = d

\* obj[d] || []
Get(obj, d) ==
    IF HasKey(obj, d)
    THEN obj[CHOOSE i \in 1..Len(obj) : obj[i].date = d].sales
    ELSE <<>>

\* { ...obj, [d]: v }
Put(obj, d, v) ==
    IF HasKey(obj, d)
    THEN [i \in 1..Len(obj) |->
            IF obj[i].date = d THEN [date |-> d, sales |-> v] ELSE obj[i]]
    ELSE Append(obj, [date |-> d, sales |-> v])

\* const next = { ...obj }; delete next[d]
Delete(obj, d) ==
    LET Other(e) == e.date # d IN SelectSeq(obj, Other)

-----------------------------------------------------------------------------
(* Defaults *)

DefaultSettings == [buyPrice |-> 0, sellPrice |-> 0]

DefaultSales == <<>>

ClosedDialog ==
    [isOpen |-> FALSE, type |-> "alert", onConfirm |-> "none", day |-> 0]

InitialSaleData == [broughtContainer |-> TRUE, identification |-> ""]


-----------------------------------------------------------------------------
(* Persistence: JSON text in the two localStorage slots.  A slot is <<>>   *)
(* when the key is absent (getItem gives null) and <<text>> otherwise; the *)
(* text of an object lists its members' values in key order.               *)

Absent == <<>>

\* JSON.stringify(settings)
StringifySettings(s) == <<s.buyPrice, s.sellPrice>>

\* JSON.parse of a settings text
ParseSettings(text) == [buyPrice |-> text[1], sellPrice |-> text[2]]

StringifySale(s) ==
    <<s.id, s.time, s.broughtContainer, s.identification, s.profit, s.gross>>

ParseSale(text) ==
    [id |-> text[1], time |-> text[2], broughtContainer |-> text[3],
     identification |-> text[4], profit |-> text[5], gross |-> text[6]]

\* JSON.stringify(allSales)
StringifySales(obj) ==
    [i \in 1..Len(obj) |->
        <<obj[i].date,
          [j \in 1..Len(obj[i].sales) |-> StringifySale(obj[i].sales[j])]>>]

\* JSON.parse of a ledger text
ParseSales(text) ==
    [i \in 1..Len(text) |->
        [date |-> text[i][1],
         sales |-> [j \in 1..Len(text[i][2]) |-> ParseSale(text[i][2][j])]]]

\* saved ? JSON.parse(saved) : { buyPrice: 0, sellPrice: 0 }
LoadSettings(slot) ==
    IF slot = Absent THEN DefaultSettings ELSE ParseSettings(slot[1])

\* saved ? JSON.parse(saved) : {}
LoadSales(slot) ==
    IF slot = Absent THEN DefaultSales ELSE ParseSales(slot[1])

\* localStorage.setItem(STORAGE_KEY_SETTINGS, JSON.stringify(settings))
SaveSettingsEffect(s) == <<StringifySettings(s)>>

\* Mutant of SaveSalesEffect: only the first date's bucket is written.
SaveSalesEffectFirstOnly(obj) ==
    <<StringifySales(IF obj = <<>> THEN <<>> ELSE <<Head(obj)>>)>>

\* localStorage.setItem(STORAGE_KEY_SALES, JSON.stringify(allSales))
SaveSalesEffect(obj) == <<StringifySales(obj)>>

-----------------------------------------------------------------------------
(* Derived values of a render *)

\* allSales[today] || []
CurrentSalesOf(obj, d) == Get(obj, d)

currentSales == CurrentSalesOf(allSales, today)

ZeroStats == [totalSales |-> 0, totalProfit |-> 0, totalGross |-> 0]

RECURSIVE Reduce(_, _)
Reduce(sales, acc) ==
    IF sales = <<>> THEN acc
    ELSE Reduce(Tail(sales),
                [totalSales |-> acc.totalSales + 1,
                 totalProfit |-> acc.totalProfit + Head(sales).profit,
                 totalGross |-> acc.totalGross + Head(sales).gross])

\* currentSales.reduce(..., { totalSales: 0, totalProfit: 0, totalGross: 0 })
StatsOf(sales) == Reduce(sales, ZeroStats)

stats == StatsOf(currentSales)

NoModal ==
    /\ ~showSettings
    /\ ~showSaleModal
    /\ ~showSummaryModal
    /\ ~dialog.isOpen

Running == phase = "running"

\* Every state update re-renders App: today is recomputed from the clock.
Render == today' = IsoDate(clock)

-----------------------------------------------------------------------------
(* Initial state: the first mount on a device with empty storage, after    *)
(* the two mount effects have written the slots.                           *)

Init ==
    /\ settings = LoadSettings(Absent)
    /\ allSales = LoadSales(Absent)
    /\ storage = [settings |-> SaveSettingsEffect(DefaultSettings),
                  sales |-> SaveSalesEffect(DefaultSales)]
    /\ showSettings = FALSE
    /\ showSaleModal = FALSE
    /\ showSummaryModal = FALSE
    /\ dialog = ClosedDialog
    /\ step = 1
    /\ newSaleData = InitialSaleData
    /\ localId = ""
    /\ clock = UnitsPerDay
    /\ today = IsoDate(UnitsPerDay)
    /\ tz \in TzOffsets
    /\ nextId = 1
    /\ phase = "running"
    /\ effectsPending = FALSE
    /\ journal = <<>>
    /\ entered = ""
    /\ clearedDays = {}

-----------------------------------------------------------------------------
(* Settings *)

\* EDITAR: onClick={() => setShowSettings(true)}
OpenSettings ==
    /\ Running /\ NoModal
    /\ showSettings' = TRUE
    /\ Render
    /\ UNCHANGED <<settings, allSales, storage, showSaleModal,
                   showSummaryModal, dialog, step, newSaleData, localId,
                   clock, tz, nextId, phase, effectsPending, histVars>>

\* The ledger with every sale priced again at (b, s).
Repriced(obj, b, s) ==
    [i \in 1..Len(obj) |->
        [date |-> obj[i].date,
         sales |-> [j \in 1..Len(obj[i].sales) |->
                      [obj[i].sales[j] EXCEPT !.profit = s - b, !.gross = s]]]]

\* Mutant of SaveSettings: the sales refer to the settings instead of holding
\* their own profit and gross, so saving new prices re-prices the ledger.
SaveSettingsRepricing(b, s) ==
    /\ Running /\ showSettings /\ ~dialog.isOpen
    /\ settings' = [buyPrice |-> b, sellPrice |-> s]
    /\ showSettings' = FALSE
    /\ allSales' = Repriced(allSales, b, s)
    /\ storage' = [settings |-> <<<<b, s>>>>,
                   sales |-> storage.sales]
    /\ today' = clock \div UnitsPerDay
    /\ UNCHANGED <<showSaleModal, showSummaryModal, dialog, step,
                   newSaleData, localId, clock, tz, nextId, phase,
                   effectsPending, histVars>>

\* SALVAR CONFIGURACOES, with localBuy = b and localSell = s typed before:
\* setSettings({ buyPrice: localBuy, sellPrice: localSell }), then the
\* settings effect saves the slot.
SaveSettings(b, s) ==
    /\ Running /\ showSettings /\ ~dialog.isOpen
    /\ settings' = [buyPrice |-> b, sellPrice |-> s]
    /\ showSettings' = FALSE
    /\ storage' = [storage EXCEPT !.settings = SaveSettingsEffect(settings')]
    /\ Render
    /\ UNCHANGED <<allSales, showSaleModal, showSummaryModal, dialog, step,
                   newSaleData, localId, clock, tz, nextId, phase,
                   effectsPending, histVars>>

\* The settings modal's X or overlay: onClose={() => setShowSettings(false)}
CloseSettings ==
    /\ Running /\ showSettings /\ ~dialog.isOpen
    /\ showSettings' = FALSE
    /\ Render
    /\ UNCHANGED <<settings, allSales, storage, showSaleModal,
                   showSummaryModal, dialog, step, newSaleData, localId,
                   clock, tz, nextId, phase, effectsPending, histVars>>

-----------------------------------------------------------------------------
(* The new-sale flow *)

\* Mutant of ConfigMissing: the sell price is not looked at.
ConfigMissingBuyOnly(s) == s.buyPrice <= 0

\* settings.buyPrice <= 0 || settings.sellPrice <= 0
ConfigMissing(s) == s.buyPrice <= 0 \/ s.sellPrice <= 0

ConfigDialog ==
    [isOpen |-> TRUE, type |-> "alert", onConfirm |-> "openSettings",
     day |-> 0]

\* Mutant of handleAddSale: opening the sale flow makes sure that today has
\* a bucket, creating an empty one.
handleAddSaleEager ==
    /\ Running /\ NoModal
    /\ IF ConfigMissing(settings)
       THEN /\ dialog' = ConfigDialog
            /\ UNCHANGED <<step, newSaleData, showSaleModal, localId,
                           entered, allSales, storage>>
       ELSE /\ step' = 1
            /\ newSaleData' = InitialSaleData
            /\ showSaleModal' = TRUE
            /\ localId' = ""
            /\ entered' = ""
            /\ allSales' = Put(allSales, today, Get(allSales, today))
            /\ storage' = [storage EXCEPT !.sales = <<StringifySales(allSales')>>]
            /\ UNCHANGED dialog
    /\ Render
    /\ UNCHANGED <<settings, showSettings, showSummaryModal, clock, tz,
                   nextId, phase, effectsPending, journal, clearedDays>>

\* NOVA VENDA
handleAddSale ==
    /\ Running /\ NoModal
    /\ IF ConfigMissing(settings)
       THEN /\ dialog' = ConfigDialog
            /\ UNCHANGED <<step, newSaleData, showSaleModal, localId,
                           entered>>
       ELSE /\ step' = 1
            /\ newSaleData' = InitialSaleData
            /\ showSaleModal' = TRUE
            /\ localId' = newSaleData'.identification
            /\ entered' = ""
            /\ UNCHANGED dialog
    /\ Render
    /\ UNCHANGED <<settings, allSales, storage, showSettings,
                   showSummaryModal, clock, tz, nextId, phase,
                   effectsPending, journal, clearedDays>>

\* The Sale that confirmSale builds from the values of the last render;
\* an undefined or empty finalIdentification is falsy.
NewSale(finalIdentification) ==
    [id |-> nextId,
     time |-> LocaleTime(clock),
     broughtContainer |-> newSaleData.broughtContainer,
     identification |-> IF finalIdentification # ""
                        THEN finalIdentification
                        ELSE newSaleData.identification,
     profit |-> settings.sellPrice - settings.buyPrice,
     gross |-> settings.sellPrice]

\* Mutant of AddSale: the earlier sales of the date are not spread into the
\* new array.
AddSaleOverwriting(prev, d, newSale) == Put(prev, d, <<newSale>>)

\* Mutant of AddSale: the new sale is put behind the earlier ones.
AddSaleAppending(prev, d, newSale) == Put(prev, d, Get(prev, d) \o <<newSale>>)

\* setAllSales(prev => ({ ...prev, [today]: [newSale, ...(prev[today] || [])] }))
AddSale(prev, d, newSale) == Put(prev, d, <<newSale>> \o Get(prev, d))

\* confirmSale, and the sales effect that follows its render.
confirmSale(finalIdentification) ==
    /\ nextId <= MaxSales
    /\ allSales' = AddSale(allSales, today, NewSale(finalIdentification))
    /\ showSaleModal' = FALSE
    /\ storage' = [storage EXCEPT !.sales = SaveSalesEffect(allSales')]
    /\ nextId' = nextId + 1
    /\ localId' = ""
    /\ journal' = Append(journal,
                    [id |-> nextId, key |-> today,
                     buy |-> settings.buyPrice, sell |-> settings.sellPrice,
                     afterClear |-> today \in clearedDays])
    /\ entered' = ""
    /\ Render

\* SIM: setNewSaleData(d => ({ ...d, broughtContainer: true })); confirmSale()
AnswerSim ==
    /\ Running /\ showSaleModal /\ ~dialog.isOpen /\ step = 1
    /\ newSaleData' = [newSaleData EXCEPT !.broughtContainer = TRUE]
    /\ confirmSale("")
    /\ UNCHANGED <<settings, showSettings, showSummaryModal, dialog, step,
                   clock, tz, phase, effectsPending, clearedDays>>

\* NAO: setNewSaleData(d => ({ ...d, broughtContainer: false })); setStep(2)
AnswerNao ==
    /\ Running /\ showSaleModal /\ ~dialog.isOpen /\ step = 1
    /\ newSaleData' = [newSaleData EXCEPT !.broughtContainer = FALSE]
    /\ step' = 2
    /\ localId' = newSaleData'.identification
    /\ Render
    /\ UNCHANGED <<settings, allSales, storage, showSettings, showSaleModal,
                   showSummaryModal, dialog, clock, tz, nextId, phase,
                   effectsPending, journal, entered, clearedDays>>

\* Typing into the identification field: setLocalId(e.target.value).  Only
\* SaleContent re-renders.
TypeLabel(l) ==
    /\ Running /\ showSaleModal /\ ~dialog.isOpen /\ step = 2
    /\ l # localId
    /\ localId' = l
    /\ entered' = l
    /\ UNCHANGED <<settings, allSales, storage, showSettings, showSaleModal,
                   showSummaryModal, dialog, step, newSaleData, today, clock,
                   tz, nextId, phase, effectsPending, journal, clearedDays>>

\* VOLTAR: setStep(1).  App re-renders and SaleContent, a component defined
\* inside App, is mounted anew: localId starts from newSaleData again.
Voltar ==
    /\ Running /\ showSaleModal /\ ~dialog.isOpen /\ step = 2
    /\ step' = 1
    /\ localId' = newSaleData.identification
    /\ Render
    /\ UNCHANGED <<settings, allSales, storage, showSettings, showSaleModal,
                   showSummaryModal, dialog, newSaleData, clock, tz, nextId,
                   phase, effectsPending, histVars>>

\* CONFIRMAR VENDA: confirmSale(localId)
ConfirmVenda ==
    /\ Running /\ showSaleModal /\ ~dialog.isOpen /\ step = 2
    /\ confirmSale(localId)
    /\ UNCHANGED <<settings, showSettings, showSummaryModal, dialog, step,
                   newSaleData, clock, tz, phase, effectsPending,
                   clearedDays>>

\* The sale modal's X or overlay: onClose={() => setShowSaleModal(false)}
CloseSaleModal ==
    /\ Running /\ showSaleModal /\ ~dialog.isOpen
    /\ showSaleModal' = FALSE
    /\ localId' = ""
    /\ entered' = ""
    /\ Render
    /\ UNCHANGED <<settings, allSales, storage, showSettings,
                   showSummaryModal, dialog, step, newSaleData, clock, tz,
                   nextId, phase, effectsPending, journal, clearedDays>>

-----------------------------------------------------------------------------
(* Closing and clearing the day, resetting everything *)

\* FECHAR DIA (disabled while currentSales is empty): the day's summary.
closeDay ==
    /\ Running /\ NoModal
    /\ Len(currentSales) # 0
    /\ dialog' = [isOpen |-> TRUE, type |-> "alert",
                  onConfirm |-> "openSummary", day |-> 0]
    /\ Render
    /\ UNCHANGED <<settings, allSales, storage, showSettings, showSaleModal,
                   showSummaryModal, step, newSaleData, localId, clock, tz,
                   nextId, phase, effectsPending, histVars>>

\* Mutant of clearDay: the button clears the day at once, without asking.
clearDayImmediate ==
    /\ Running /\ showSummaryModal /\ ~dialog.isOpen
    /\ allSales' = Delete(allSales, today)
    /\ showSummaryModal' = FALSE
    /\ storage' = [storage EXCEPT !.sales = SaveSalesEffect(allSales')]
    /\ journal' = LET Other(r) == r.key # today IN SelectSeq(journal, Other)
    /\ clearedDays' = clearedDays \cup {today}
    /\ Render
    /\ UNCHANGED <<settings, showSettings, showSaleModal, dialog, step,
                   newSaleData, localId, clock, tz, nextId, phase,
                   effectsPending, entered>>

\* LIMPAR REGISTROS DE HOJE, in the summary modal: the confirm dialog, whose
\* onConfirm closes over the today of this render.
clearDay ==
    /\ Running /\ showSummaryModal /\ ~dialog.isOpen
    /\ dialog' = [isOpen |-> TRUE, type |-> "confirm",
                  onConfirm |-> "clearDay", day |-> today]
    /\ Render
    /\ UNCHANGED <<settings, allSales, storage, showSettings, showSaleModal,
                   showSummaryModal, step, newSaleData, localId, clock, tz,
                   nextId, phase, effectsPending, histVars>>

\* RESETAR TUDO: the confirm dialog.
resetAll ==
    /\ Running /\ NoModal
    /\ dialog' = [isOpen |-> TRUE, type |-> "confirm",
                  onConfirm |-> "resetAll", day |-> 0]
    /\ Render
    /\ UNCHANGED <<settings, allSales, storage, showSettings, showSaleModal,
                   showSummaryModal, step, newSaleData, localId, clock, tz,
                   nextId, phase, effectsPending, histVars>>

\* CONCLUIDO, or the summary modal's X or overlay: setShowSummaryModal(false)
CloseSummary ==
    /\ Running /\ showSummaryModal /\ ~dialog.isOpen
    /\ showSummaryModal' = FALSE
    /\ Render
    /\ UNCHANGED <<settings, allSales, storage, showSettings, showSaleModal,
                   dialog, step, newSaleData, localId, clock, tz, nextId,
                   phase, effectsPending, histVars>>

-----------------------------------------------------------------------------
(* The dialog's buttons *)

\* setDialog(prev => ({ ...prev, isOpen: false }))
Closed(d) == [d EXCEPT !.isOpen = FALSE]

\* CANCELAR (a confirm dialog only), or the dialog's X or overlay.
DismissDialog ==
    /\ Running /\ dialog.isOpen
    /\ dialog' = Closed(dialog)
    /\ Render
    /\ UNCHANGED <<settings, allSales, storage, showSettings, showSaleModal,
                   showSummaryModal, step, newSaleData, localId, clock, tz,
                   nextId, phase, effectsPending, histVars>>

\* OK on "Configuracao Necessaria": onConfirm: () => setShowSettings(true)
OkConfig ==
    /\ Running /\ dialog.isOpen /\ dialog.onConfirm = "openSettings"
    /\ dialog' = Closed(dialog)
    /\ showSettings' = TRUE
    /\ Render
    /\ UNCHANGED <<settings, allSales, storage, showSaleModal,
                   showSummaryModal, step, newSaleData, localId, clock, tz,
                   nextId, phase, effectsPending, histVars>>

\* OK on "RESUMO DO DIA": onConfirm: () => setShowSummaryModal(true)
OkSummary ==
    /\ Running /\ dialog.isOpen /\ dialog.onConfirm = "openSummary"
    /\ dialog' = Closed(dialog)
    /\ showSummaryModal' = TRUE
    /\ Render
    /\ UNCHANGED <<settings, allSales, storage, showSettings, showSaleModal,
                   step, newSaleData, localId, clock, tz, nextId, phase,
                   effectsPending, histVars>>

\* Mutant of ClearDate: every date is cleared, not only the one asked for.
ClearDateAll(prev, d) == <<>>

\* Mutant of ClearDate: the date's array is emptied and its key kept.
ClearDateInPlace(prev, d) == Put(prev, d, <<>>)

\* setAllSales(prev => { const next = { ...prev }; delete next[today]; return next })
ClearDate(prev, d) == Delete(prev, d)

\* History: the recordings under key d are no longer in the ledger.
Forget(j, d) ==
    LET Other(r) == r.key # d IN SelectSeq(j, Other)

\* CONFIRMAR on "Limpar Registros": clearDay's onConfirm, then the sales
\* effect.
ConfirmClearDay ==
    /\ Running /\ dialog.isOpen /\ dialog.onConfirm = "clearDay"
    /\ dialog' = Closed(dialog)
    /\ allSales' = ClearDate(allSales, dialog.day)
    /\ showSummaryModal' = FALSE
    /\ storage' = [storage EXCEPT !.sales = SaveSalesEffect(allSales')]
    /\ journal' = Forget(journal, dialog.day)
    /\ clearedDays' = clearedDays \cup {dialog.day}
    /\ Render
    /\ UNCHANGED <<settings, showSettings, showSaleModal, step, newSaleData,
                   localId, clock, tz, nextId, phase, effectsPending,
                   entered>>

\* Mutant of ClearStorage: only the settings key is removed.
ClearStorageSettingsOnly == [storage EXCEPT !.settings = <<>>]

\* localStorage.clear()
ClearStorage == [settings |-> Absent, sales |-> Absent]

\* CONFIRMAR on "RESETAR TUDO": resetAll's onConfirm.  The handler clears
\* the storage, resets the state and starts a navigation to the same URL;
\* the render's save effects are still to run when it returns.
ConfirmResetAll ==
    /\ Running /\ dialog.isOpen /\ dialog.onConfirm = "resetAll"
    /\ dialog' = Closed(dialog)
    /\ storage' = ClearStorage
    /\ allSales' = DefaultSales
    /\ settings' = DefaultSettings
    /\ showSettings' = FALSE
    /\ showSaleModal' = FALSE
    /\ showSummaryModal' = FALSE
    /\ phase' = "reloading"
    /\ effectsPending' = TRUE
    /\ journal' = <<>>
    /\ Render
    /\ UNCHANGED <<step, newSaleData, localId, clock, tz, nextId, entered,
                   clearedDays>>

\* The two save effects of resetAll's render, when they run before the page
\* is unloaded.
FlushEffects ==
    /\ phase = "reloading" /\ effectsPending
    /\ storage' = [settings |-> SaveSettingsEffect(settings),
                   sales |-> SaveSalesEffect(allSales)]
    /\ effectsPending' = FALSE
    /\ UNCHANGED <<settings, allSales, uiVars, today, clock, tz, nextId,
                   phase, histVars>>

-----------------------------------------------------------------------------
(* Startup *)

\* App is mounted: the state initialisers read the slots, the first render
\* computes today, and the two mount effects write the slots back.
Mount ==
    /\ settings' = LoadSettings(storage.settings)
    /\ allSales' = LoadSales(storage.sales)
    /\ storage' = [settings |-> SaveSettingsEffect(settings'),
                   sales |-> SaveSalesEffect(allSales')]
    /\ showSettings' = FALSE
    /\ showSaleModal' = FALSE
    /\ showSummaryModal' = FALSE
    /\ dialog' = ClosedDialog
    /\ step' = 1
    /\ newSaleData' = InitialSaleData
    /\ localId' = ""
    /\ phase' = "running"
    /\ effectsPending' = FALSE
    /\ entered' = ""
    /\ Render

\* window.location.href = window.location.href takes effect: the page is
\* loaded again, whether or not the save effects have run.
Reload ==
    /\ phase = "reloading"
    /\ Mount
    /\ UNCHANGED <<clock, tz, nextId, journal, clearedDays>>

\* The user closes the app and opens it again.
Restart ==
    /\ Running
    /\ Mount
    /\ UNCHANGED <<clock, tz, nextId, journal, clearedDays>>

\* Time passes; nothing is rendered.
Tick ==
    /\ clock < MaxClock
    /\ clock' = clock + 1
    /\ UNCHANGED <<settings, allSales, storage, uiVars, today, tz, nextId,
                   phase, effectsPending, histVars>>

-----------------------------------------------------------------------------

Next ==
    \/ OpenSettings
    \/ \E p \in PricePairs : SaveSettings(p[1], p[2])
    \/ CloseSettings
    \/ handleAddSale
    \/ AnswerSim
    \/ AnswerNao
    \/ \E l \in Labels : TypeLabel(l)
    \/ Voltar
    \/ ConfirmVenda
    \/ CloseSaleModal
    \/ closeDay
    \/ clearDay
    \/ resetAll
    \/ CloseSummary
    \/ DismissDialog
    \/ OkConfig
    \/ OkSummary
    \/ ConfirmClearDay
    \/ ConfirmResetAll
    \/ FlushEffects
    \/ Reload
    \/ Restart
    \/ Tick

Spec == Init /\ [][Next]_vars

-----------------------------------------------------------------------------
(* Vocabulary of the properties *)

Range(f) == {f[i] : i \in DOMAIN f}

\* Every sale of the ledger, whatever its bucket.
SalesIn(obj) == UNION {Range(obj[i].sales) : i \in 1..Len(obj)}

\* The positions of the buckets that hold a sale with this id.
BucketsOf(obj, id) ==
    {i \in 1..Len(obj) : \E s \in Range(obj[i].sales) : s.id = id}

\* The recordings made under key d and not cleared since.
RecordingsOn(d) == LET OnDay(r) == r.key = d IN SelectSeq(journal, OnDay)

RECURSIVE SumMargin(_)
SumMargin(recs) ==
    IF recs = <<>> THEN 0
    ELSE (Head(recs).sell - Head(recs).buy) + SumMargin(Tail(recs))

RECURSIVE SumSell(_)
SumSell(recs) ==
    IF recs = <<>> THEN 0 ELSE Head(recs).sell + SumSell(Tail(recs))

\* The calendar date of instant t in the device's local time zone.
LocalDate(t) == (t + tz) \div UnitsPerDay

\* A step that records a sale: confirmSale draws a fresh id.
RecordStep == nextId' = nextId + 1

-----------------------------------------------------------------------------
(* C1 *)

\* C1 (aggregate consistency): in every reachable state the stats of today
\* count the sales recorded under today's key since its last clear, and
\* total their (sellPrice - buyPrice) and their sellPrice as they were when
\* each sale was recorded.
C1_AggregateConsistency ==
    LET recs == RecordingsOn(today) IN
    /\ stats.totalSales = Len(recs)
    /\ stats.totalProfit = SumMargin(recs)
    /\ stats.totalGross = SumSell(recs)

\* Two sales of today recorded at different prices, (2, 3) and (3, 5).
C1_Witness ==
    /\ stats.totalSales = 2
    /\ stats.totalProfit = 3
    /\ stats.totalGross = 8

-----------------------------------------------------------------------------
(* C2 *)

\* C2 (config rejection): from a state where buyPrice <= 0 or sellPrice <= 0
\* no step records a sale or changes the ledger, and NOVA VENDA opens the
\* configuration-required dialog instead of the sale modal.
C2_ConfigRejection ==
    [][(settings.buyPrice <= 0 \/ settings.sellPrice <= 0) =>
        /\ ~RecordStep
        /\ allSales' = allSales \/ Len(allSales') < Len(allSales)
        /\ SalesIn(allSales') \subseteq SalesIn(allSales)
        /\ handleAddSale =>
            /\ dialog'.isOpen
            /\ dialog'.onConfirm = "openSettings"
            /\ ~showSaleModal'
            /\ allSales' = allSales
            /\ StatsOf(Get(allSales', today)) = stats]_vars

\* NOVA VENDA was refused at a negative buy price while the ledger holds a
\* sale recorded earlier.
C2_Witness ==
    /\ settings.buyPrice < 0
    /\ settings.sellPrice > 0
    /\ dialog.isOpen
    /\ dialog.onConfirm = "openSettings"
    /\ allSales # <<>>

-----------------------------------------------------------------------------
(* C3 *)

\* The sale a recording step has just put into the ledger.
JustRecorded == {s \in SalesIn(allSales') : s.id = nextId}

\* C3 (recorded flags): the sale recorded by SIM has broughtContainer = true,
\* the sale recorded by CONFIRMAR VENDA (after NAO) has broughtContainer =
\* false, and either carries the label the user entered in that flow,
\* whatever the path through the flow.
C3_RecordedFlags ==
    [][/\ AnswerSim =>
            \A s \in JustRecorded :
                s.broughtContainer = TRUE /\ s.identification = entered
       /\ ConfirmVenda =>
            \A s \in JustRecorded :
                s.broughtContainer = FALSE /\ s.identification = entered]_vars

-----------------------------------------------------------------------------
(* C4 *)

\* SALVAR CONFIGURACOES with some pair of prices.
PricingUpdate == \E p \in PricePairs : SaveSettings(p[1], p[2])

\* C4 (historical immutability): a pricing update leaves the ledger as it
\* was, and through every step a sale that stays in the ledger keeps the
\* profit and gross it was recorded with.
C4_HistoricalImmutability ==
    [][/\ PricingUpdate => allSales' = allSales
       /\ \A s \in SalesIn(allSales), t \in SalesIn(allSales') :
            s.id = t.id => s.profit = t.profit /\ s.gross = t.gross]_vars

\* A sale recorded at (2, 3) is in the ledger while the prices are (3, 5).
C4_Witness ==
    /\ settings = [buyPrice |-> 3, sellPrice |-> 5]
    /\ \E s \in SalesIn(allSales) : s.profit = 1 /\ s.gross = 3

-----------------------------------------------------------------------------
(* C5 *)

\* C5 (clear removes, not empties): a confirmed clear of date d leaves no key
\* d in the ledger, so that the sales of d are empty and its stats zero; the
\* next recording on d makes a bucket of exactly the one new sale, as on a
\* date that never had a sale.
C5_ClearRemoves ==
    [][/\ ConfirmClearDay =>
            /\ ~HasKey(allSales', dialog.day)
            /\ CurrentSalesOf(allSales', dialog.day) = <<>>
            /\ StatsOf(CurrentSalesOf(allSales', dialog.day)) = ZeroStats
       /\ (RecordStep /\ today \in clearedDays /\ RecordingsOn(today) = <<>>) =>
            /\ Len(Get(allSales', today)) = 1
            /\ Get(allSales', today) =
                 Get(AddSale(DefaultSales, today, Head(Get(allSales', today))),
                     today)
            /\ Head(Get(allSales', today)).id = nextId]_vars

\* A date was cleared while it had a sale, and a sale was recorded on it
\* afterwards.
C5_Witness ==
    /\ today \in clearedDays
    /\ Len(currentSales) = 1
    /\ Head(currentSales).id = 2
    /\ \E i \in 1..Len(journal) : journal[i].afterClear

-----------------------------------------------------------------------------
(* C6 *)

\* C6 (newest-first ordering): a recording puts the new sale at the head of
\* its date's sequence and keeps the earlier sales behind it in their order,
\* so every bucket is in reverse order of recording (ids are drawn in the
\* order of recording).
C6_NewestFirst ==
    [][/\ RecordStep =>
            /\ Get(allSales', today) # <<>>
            /\ Head(Get(allSales', today)).id = nextId
            /\ Tail(Get(allSales', today)) = Get(allSales, today)
       /\ \A i \in 1..Len(allSales') :
            \A j, k \in 1..Len(allSales'[i].sales) :
                j < k => allSales'[i].sales[j].id > allSales'[i].sales[k].id]_vars

\* Sale 1 then sale 2 were recorded on the same date: the bucket is [2, 1].
C6_Witness ==
    /\ Len(currentSales) = 2
    /\ currentSales[1].id = 2
    /\ currentSales[2].id = 1

-----------------------------------------------------------------------------
(* C7 *)

\* C7 (date bucketing): a recorded sale is stored in exactly one bucket, and
\* the key of that bucket is the local calendar date of the moment of the
\* recording.
C7_DateBucketing ==
    [][RecordStep =>
        /\ Cardinality(BucketsOf(allSales', nextId)) = 1
        /\ \A i \in BucketsOf(allSales', nextId) :
            allSales'[i].date = LocalDate(clock)]_vars

-----------------------------------------------------------------------------
(* C8 *)

\* C8 (full reset): from the confirmation of resetAll until the page is
\* loaded again, the pricing in memory is {0, 0}, the ledger in memory has
\* no bucket, and the slots load as these defaults, so the next startup
\* starts from them.
C8_FullReset ==
    phase = "reloading" =>
        /\ settings = [buyPrice |-> 0, sellPrice |-> 0]
        /\ allSales = <<>>
        /\ LoadSettings(storage.settings) = [buyPrice |-> 0, sellPrice |-> 0]
        /\ LoadSales(storage.sales) = <<>>

\* resetAll was confirmed, and its save effects have run, after sales were
\* recorded.
C8_Witness ==
    /\ phase = "reloading"
    /\ ~effectsPending
    /\ nextId = 3
    /\ clearedDays = {}

-----------------------------------------------------------------------------
(* C9 *)

\* C9 (persistence round trip): whenever no save effect is pending, the two
\* slots decode to the pricing and the ledger in memory, an absent slot to
\* its default.
C9_RoundTrip ==
    ~effectsPending =>
        /\ LoadSettings(storage.settings) = settings
        /\ LoadSales(storage.sales) = allSales

\* Two buckets, a label and prices other than the defaults are in memory
\* and in the slots.
C9_Witness ==
    /\ ~effectsPending
    /\ Len(allSales) = 2
    /\ \E s \in SalesIn(allSales) : s.identification = "ana"
    /\ settings = [buyPrice |-> 3, sellPrice |-> 5]
    /\ storage.sales # Absent

-----------------------------------------------------------------------------
(* C10 *)

\* C10 (existence invariant): every date key of the ledger maps to a
\* non-empty sequence of sales, no date has two keys, and the sales and stats
\* read for a date without a key are the empty sequence and {0, 0, 0}.
C10_Existence ==
    /\ \A i \in 1..Len(allSales) : allSales[i].sales # <<>>
    /\ \A i, j \in 1..Len(allSales) :
        allSales[i].date = allSales[j].date => i = j
    /\ ~HasKey(allSales, today) => currentSales = <<>> /\ stats = ZeroStats

\* The ledger holds a sale of an earlier date and today has no bucket.
C10_Witness ==
    /\ allSales # <<>>
    /\ ~HasKey(allSales, today)
    /\ currentSales = <<>>

-----------------------------------------------------------------------------
(* C11 *)

\* C11 (frame of clear): a confirmed clearDay removes the key of the date it
\* was requested for (the today of the render the user clicked on) and
\* nothing else: every other date keeps its key and its bucket, the buckets
\* keep their order in the ledger, pricing in memory and in its slot is
\* unchanged, and the ledger is unchanged when that date has no bucket.
C11_ClearFrame ==
    [][ConfirmClearDay =>
        /\ {allSales'[i].date : i \in 1..Len(allSales')} =
             {allSales[i].date : i \in 1..Len(allSales)} \ {dialog.day}
        /\ \A i \in 1..Len(allSales) :
             allSales[i].date # dialog.day =>
                \E j \in 1..Len(allSales') : allSales'[j] = allSales[i]
        /\ \A i, j \in 1..Len(allSales') :
             i < j =>
                \E k, l \in 1..Len(allSales) :
                    /\ k < l
                    /\ allSales[k] = allSales'[i]
                    /\ allSales[l] = allSales'[j]
        /\ settings' = settings
        /\ storage'.settings = storage.settings
        /\ (\A i \in 1..Len(allSales) : allSales[i].date # dialog.day) =>
             allSales' = allSales]_vars

\* A confirmed clear has just removed one date's sale and the other date's
\* bucket, with the other sale, is still in the ledger.
C11_Witness ==
    /\ ~dialog.isOpen
    /\ dialog.onConfirm = "clearDay"
    /\ dialog.day \in clearedDays
    /\ nextId = 3
    /\ Len(allSales) = 1
    /\ allSales[1].date # dialog.day
    /\ Len(allSales[1].sales) = 1

-----------------------------------------------------------------------------
(* C12 *)

\* C12 (confirmation before destruction): a step in which the ledger loses a
\* sale is the CONFIRMAR of an open confirm dialog of clearDay or resetAll,
\* and a step that changes the pricing is that of resetAll or a settings
\* save; cancelling or dismissing the dialog leaves the ledger, the pricing
\* and the two slots unchanged, and closeDay leaves the ledger unchanged.
C12_ConfirmBeforeDestruction ==
    [][/\ ~(SalesIn(allSales) \subseteq SalesIn(allSales')) =>
            /\ dialog.isOpen
            /\ dialog.type = "confirm"
            /\ dialog.onConfirm \in {"clearDay", "resetAll"}
            /\ ~dialog'.isOpen
            /\ ConfirmClearDay \/ ConfirmResetAll
       /\ settings' # settings =>
            \/ PricingUpdate
            \/ /\ dialog.isOpen
               /\ dialog.type = "confirm"
               /\ dialog.onConfirm = "resetAll"
               /\ ConfirmResetAll
       /\ DismissDialog =>
            /\ allSales' = allSales
            /\ settings' = settings
            /\ storage' = storage
       /\ closeDay =>
            /\ allSales' = allSales
            /\ storage' = storage]_vars

\* resetAll was requested and then cancelled while the ledger held a sale
\* and the prices were set: all of it is still there, in memory and in the
\* slots.
C12_Witness ==
    /\ Running
    /\ ~dialog.isOpen
    /\ dialog.type = "confirm"
    /\ dialog.onConfirm = "resetAll"
    /\ allSales # <<>>
    /\ settings = [buyPrice |-> 2, sellPrice |-> 3]
    /\ storage.sales = SaveSalesEffect(allSales)

=============================================================================
